---- MODULE Spec2Model ----
(***************************************************************************)
(* A model of chicagohouses.funcs: get_houses and __validate_args.          *)
(*                                                                         *)
(* One call of get_houses is followed through its phases: the lazy scan of *)
(* the parquet file, __validate_args, the construction of the filtered     *)
(* query plan, and the materialisation selected by output_type.  The       *)
(* caller's argument objects are part of the state, so that an in-place    *)
(* change of a list the caller passed is visible.                          *)
(***************************************************************************)
EXTENDS Integers, Sequences, FiniteSets, TLC

VARIABLES
    pc,               \* position of the call: idle, scan, validate, filter, return, done
    fileExists,       \* the parquet file is present at data_file
    scanChecksFile,   \* pl.scan_parquet of this build opens the file when called
    community_areas,  \* the object the caller passed as community_areas
    year_range,       \* the object the caller passed as year_range
    full_data,        \* the full_data argument
    output_type,      \* the output_type argument
    areas,            \* get_houses' local community_areas after __validate_args
    years,            \* get_houses' local year_range after __validate_args
    p_df,             \* the lazy query plan: its columns and the rows it yields
    areaScans,        \* materialisations of the distinct-community scan
    planCollects,     \* materialisations of the filtered plan p_df
    notice,           \* the documentation notice has been printed
    outcome           \* what the call gave its caller

vars == <<pc, fileExists, scanChecksFile, community_areas, year_range, full_data,
          output_type, areas, years, p_df, areaScans, planCollects, notice, outcome>>

-----------------------------------------------------------------------------
(* Bounds of the model. *)

\* longest community_areas list the caller passes
MaxAreas == 2

\* longest year_range list or tuple the caller passes
MaxYears == 3

-----------------------------------------------------------------------------
(* Strings are sequences of one-character strings; str.upper is char-wise. *)

LowerCase == <<"a","b","c","d","e","f","g","h","i","j","k","l","m",
               "n","o","p","q","r","s","t","u","v","w","x","y","z">>

UpperCase == <<"A","B","C","D","E","F","G","H","I","J","K","L","M",
               "N","O","P","Q","R","S","T","U","V","W","X","Y","Z">>

UpperChar(c) ==
    IF \E i \in DOMAIN LowerCase : LowerCase[i] = c
    THEN UpperCase[CHOOSE i \in DOMAIN LowerCase : LowerCase[i] = c]
    ELSE c

\* x.upper()
Upper(s) == [i \in DOMAIN s |-> UpperChar(s[i])]

\* [x.upper() for x in names]
UpperAll(names) == [i \in DOMAIN names |-> Upper(names[i])]

-----------------------------------------------------------------------------
(* The data file: rows of houses.parquet.gzip and its columns. *)

LOOP == <<"L","O","O","P">>
UPTOWN == <<"U","P","T","O","W","N">>

Dataset ==
    { [pin |-> 1, build_year |-> 1850, community |-> LOOP],
      [pin |-> 2, build_year |-> 1900, community |-> LOOP],
      [pin |-> 3, build_year |-> 1900, community |-> UPTOWN],
      [pin |-> 4, build_year |-> 2000, community |-> UPTOWN] }

CoreColumns == {"pin", "addr", "build_year", "community", "house_point"}

\* the property characteristics kept only with full_data
CharColumns == {"char_bldg_sf", "char_rooms"}

FileColumns == CoreColumns \cup CharColumns

-----------------------------------------------------------------------------
(* Argument values the caller may pass. *)

\* community_areas and year_range default to False
Absent == [kind |-> "absent", val |-> <<>>]

Str(s) == [kind |-> "str", val |-> s]
Num(n) == [kind |-> "num", val |-> <<n>>]
List(q) == [kind |-> "list", val |-> q]
Tuple(q) == [kind |-> "tuple", val |-> q]

SeqsUpTo(S, n) == UNION { [1..k -> S] : k \in 0..n }

AreaNames == { <<"L","o","o","p">>, UPTOWN, <<"o","z">>, <<"E","d","e","n">> }

YearValues == {0, 1900}

AreaArgs ==
    {Absent} \cup { Str(s) : s \in AreaNames }
             \cup { List(q) : q \in SeqsUpTo(AreaNames, MaxAreas) }

YearArgs ==
    {Absent} \cup { Num(n) : n \in YearValues }
             \cup { List(q) : q \in SeqsUpTo(YearValues, MaxYears) }
             \cup { Tuple(q) : q \in SeqsUpTo(YearValues, MaxYears) }

OutputArgs == {"geopandas", "pandas", "polars", "csv"}

\* Python truth value of an argument object: `if community_areas:`, `if year_range:`
Truthy(x) ==
    CASE x.kind = "absent" -> FALSE
      [] x.kind = "num"    -> x.val[1] # 0
      [] OTHER             -> Len(x.val) # 0

-----------------------------------------------------------------------------
(* __validate_args *)

\* lines 72-74: a string becomes a one-element list, every name is uppercased;
\* a falsy value is passed through unchanged
NormalizeAreas(ca) ==
    IF Truthy(ca)
    THEN List(UpperAll(IF ca.kind = "str" THEN <<ca.val>> ELSE ca.val))
    ELSE ca

\* lines 76-80: the year_range after normalisation, the error raised (if any),
\* and the caller's object afterwards.  A number is wrapped in a fresh list; a
\* one-element sequence is extended in place (list.extend), which a tuple does
\* not have; any length other than two is then rejected.
NormalizeYears(yr) ==
    IF ~Truthy(yr)
    THEN [val |-> yr, error |-> "", caller |-> yr]
    ELSE LET wrapped == IF yr.kind = "num" THEN List(yr.val) ELSE yr
             aliased == yr.kind # "num"
         IN  IF Len(wrapped.val) = 1
             THEN IF wrapped.kind = "tuple"
                  THEN [val |-> wrapped, error |-> "AttributeError", caller |-> yr]
                  ELSE LET ext == List(wrapped.val \o wrapped.val)
                       IN  [val |-> ext, error |-> "",
                            caller |-> IF aliased THEN ext ELSE yr]
             ELSE IF Len(wrapped.val) # 2
                  THEN [val |-> wrapped, error |-> "InvalidYearRange", caller |-> yr]
                  ELSE [val |-> wrapped, error |-> "", caller |-> yr]

ValidOutputTypesLoose == {"geopandas", "pandas", "polars", "csv"}

\* line 83
ValidOutputTypes == {"geopandas", "pandas", "polars"}

NeedsAreaScanAlways(ca) == TRUE

\* line 88: the distinct-community scan is made only for a truthy selection
NeedsAreaScan(ca) == Truthy(ca)

\* lines 89-93: p_df.select('community').unique().collect().to_series().to_list()
full_ca_list(df) == { r.community : r \in df.rows }

invalid_areas_first(names, df) ==
    LET IsInvalid(a) == a \notin full_ca_list(df)
        all == SelectSeq(names, IsInvalid)
    IN  IF all = <<>> THEN <<>> ELSE <<Head(all)>>

\* lines 94-95: [area for area in community_areas if area not in full_ca_list]
invalid_areas(names, df) ==
    LET IsInvalid(a) == a \notin full_ca_list(df)
    IN  SelectSeq(names, IsInvalid)

-----------------------------------------------------------------------------
(* get_houses *)

ProjectColumnsAll(full) == FileColumns

\* lines 45-46
ProjectColumns(full) == IF full THEN FileColumns ELSE CoreColumns

AreaPredicateSkipped(r, names) == TRUE

\* line 52: pl.col('community').is_in([x.upper() for x in community_areas])
AreaPredicate(r, names) ==
    \E i \in DOMAIN names : r.community = Upper(names[i])

\* line 54: pl.col('build_year').is_between(year_range[0], year_range[1])
YearPredicate(r, yr) == yr[1] <= r.build_year /\ r.build_year <= yr[2]

\* lines 51-54
FilterRows(df, ca, yr) ==
    { r \in df.rows :
        /\ Truthy(ca) => AreaPredicate(r, ca.val)
        /\ Truthy(yr) => YearPredicate(r, yr.val) }

\* lines 58-60: set_geometry with an unnamed GeoSeries stores it as 'geometry'
GeoColumns(cols) == cols \cup {"geometry"}

NoPlan == [cols |-> {}, rows |-> {}]

\* line 36: the plan over the file; a file that is not there yields no rows
ScanParquet == [cols |-> FileColumns, rows |-> IF fileExists THEN Dataset ELSE {}]

NoOutcome == [kind |-> "pending", error |-> "", msg |-> <<>>, rep |-> "",
              cols |-> {}, rows |-> {}]

Raise(e, m) == [kind |-> "raise", error |-> e, msg |-> m, rep |-> "",
                cols |-> {}, rows |-> {}]

Result(rep, cols, rows) == [kind |-> "return", error |-> "", msg |-> <<>>,
                            rep |-> rep, cols |-> cols, rows |-> rows]

\* falling off the end of the function body
ReturnNone == [kind |-> "none", error |-> "", msg |-> <<>>, rep |-> "",
               cols |-> {}, rows |-> {}]

-----------------------------------------------------------------------------

Init ==
    /\ pc = "idle"
    /\ fileExists \in BOOLEAN
    /\ scanChecksFile \in BOOLEAN
    /\ (fileExists => scanChecksFile)
    /\ community_areas = Absent
    /\ year_range = Absent
    /\ full_data = FALSE
    /\ output_type = "geopandas"
    /\ areas = Absent
    /\ years = Absent
    /\ p_df = NoPlan
    /\ areaScans = 0
    /\ planCollects = 0
    /\ notice = FALSE
    /\ outcome = NoOutcome

\* the caller invokes get_houses(community_areas, year_range, full_data, output_type)
Call ==
    /\ pc = "idle"
    /\ community_areas' \in AreaArgs
    /\ year_range' \in YearArgs
    /\ full_data' \in BOOLEAN
    /\ output_type' \in OutputArgs
    /\ areas' = Absent
    /\ years' = Absent
    /\ p_df' = NoPlan
    /\ areaScans' = 0
    /\ planCollects' = 0
    /\ notice' = FALSE
    /\ outcome' = NoOutcome
    /\ pc' = "scan"
    /\ UNCHANGED <<fileExists, scanChecksFile>>

\* lines 34-39: pl.scan_parquet inside try/except FileNotFoundError
Scan ==
    /\ pc = "scan"
    /\ IF ~fileExists /\ scanChecksFile
       THEN /\ outcome' = Raise("DataUnavailable", <<>>)
            /\ pc' = "done"
            /\ UNCHANGED p_df
       ELSE /\ p_df' = ScanParquet
            /\ pc' = "validate"
            /\ UNCHANGED outcome
    /\ UNCHANGED <<fileExists, scanChecksFile, community_areas, year_range, full_data,
                   output_type, areas, years, areaScans, planCollects, notice>>

\* line 42 and lines 68-100: __validate_args
Validate ==
    /\ pc = "validate"
    /\ LET ca == NormalizeAreas(community_areas)
           yr == NormalizeYears(year_range)
           scanned == yr.error = "" /\ output_type \in ValidOutputTypes
                        /\ NeedsAreaScan(ca)
           bad == invalid_areas(ca.val, p_df)
           err == CASE yr.error # "" -> Raise(yr.error, <<>>)
                    [] output_type \notin ValidOutputTypes ->
                           Raise("InvalidOutputType", <<>>)
                    [] scanned /\ ~fileExists -> Raise("FileNotFoundError", <<>>)
                    [] scanned /\ bad # <<>> -> Raise("InvalidCommunityArea", bad)
                    [] OTHER -> NoOutcome
       IN  /\ year_range' = yr.caller
           /\ areaScans' = IF scanned THEN areaScans + 1 ELSE areaScans
           /\ outcome' = err
           /\ IF err.kind = "raise"
              THEN /\ pc' = "done"
                   /\ UNCHANGED <<areas, years>>
              ELSE /\ pc' = "filter"
                   /\ areas' = ca
                   /\ years' = yr.val
    /\ UNCHANGED <<fileExists, scanChecksFile, community_areas, full_data,
                   output_type, p_df, planCollects, notice>>

\* lines 45-54: projection, the notice, and the two predicates
Filter ==
    /\ pc = "filter"
    /\ p_df' = [cols |-> ProjectColumns(full_data), rows |-> FilterRows(p_df, areas, years)]
    /\ notice' = full_data
    /\ pc' = "return"
    /\ UNCHANGED <<fileExists, scanChecksFile, community_areas, year_range, full_data,
                   output_type, areas, years, areaScans, planCollects, outcome>>

\* lines 57-65: the result in the representation output_type selects
Return ==
    /\ pc = "return"
    /\ LET collects == output_type \in {"geopandas", "pandas"}
       IN  /\ planCollects' = IF collects THEN planCollects + 1 ELSE planCollects
           /\ outcome' =
                CASE collects /\ ~fileExists -> Raise("FileNotFoundError", <<>>)
                  [] output_type = "geopandas" ->
                         Result("geopandas", GeoColumns(p_df.cols), p_df.rows)
                  [] output_type = "pandas" ->
                         Result("pandas", p_df.cols, p_df.rows)
                  [] output_type = "polars" ->
                         Result("polars", p_df.cols, p_df.rows)
                  [] OTHER -> ReturnNone
    /\ pc' = "done"
    /\ UNCHANGED <<fileExists, scanChecksFile, community_areas, year_range, full_data,
                   output_type, areas, years, p_df, areaScans, notice>>

\* the caller has the result or the error; the next call starts afresh
\* (line 9: nothing of a call survives it but the caller's own objects)
Finish ==
    /\ pc = "done"
    /\ pc' = "idle"
    /\ community_areas' = Absent
    /\ year_range' = Absent
    /\ full_data' = FALSE
    /\ output_type' = "geopandas"
    /\ areas' = Absent
    /\ years' = Absent
    /\ p_df' = NoPlan
    /\ areaScans' = 0
    /\ planCollects' = 0
    /\ notice' = FALSE
    /\ outcome' = NoOutcome
    /\ UNCHANGED <<fileExists, scanChecksFile>>

Next == Call \/ Scan \/ Validate \/ Filter \/ Return \/ Finish

Spec == Init /\ [][Next]_vars

-----------------------------------------------------------------------------
(* Vocabulary of the properties, stated on the caller's arguments. *)

\* the names the caller supplied
SuppliedNames(ca) ==
    IF ca.kind = "str" THEN {ca.val} ELSE { ca.val[i] : i \in DOMAIN ca.val }

\* the caller passed a list or a tuple as year_range
IsCollection(x) == x.kind \in {"list", "tuple"}

Returned == pc = "done" /\ outcome.kind = "return"

Raised(e) == pc = "done" /\ outcome.kind = "raise" /\ outcome.error = e

InCall == pc \in {"scan", "validate", "filter", "return"}

-----------------------------------------------------------------------------
(* C1: for an accepted community-area selection every row of the result has *)
(* a community equal to the uppercase form of a supplied name; with an      *)
(* absent or falsy selection no community predicate is applied, so a row of *)
(* the file is missing from the result only if the year range excludes it.  *)
C1_CommunityFilter ==
    Returned /\ fileExists =>
        IF Truthy(community_areas)
        THEN \A r \in outcome.rows :
                 \E n \in SuppliedNames(community_areas) : r.community = Upper(n)
        ELSE \A r \in Dataset \ outcome.rows :
                 /\ Truthy(year_range)
                 /\ ~ (/\ year_range.val[1] <= r.build_year
                       /\ r.build_year <= year_range.val[Len(year_range.val)])

\* a mixed-case name selected some but not all rows of the file
C1_Witness ==
    /\ Returned
    /\ community_areas = List(<< <<"L","o","o","p">> >>)
    /\ year_range = Absent
    /\ outcome.rows # {}
    /\ outcome.rows # Dataset

(* C2: a range [lo, hi] with lo <= hi yields only rows whose build_year is  *)
(* within the inclusive bounds, and a bare number y yields what [y, y]      *)
(* yields: the rows of the selected areas built in year y.                  *)
C2_YearFilter ==
    Returned /\ fileExists =>
        /\ ( /\ IsCollection(year_range)
             /\ Len(year_range.val) = 2
             /\ year_range.val[1] <= year_range.val[2] )
           => \A r \in outcome.rows :
                  year_range.val[1] <= r.build_year /\ r.build_year <= year_range.val[2]
        /\ year_range.kind = "num"
           => outcome.rows =
                { r \in Dataset :
                    /\ r.build_year = year_range.val[1]
                    /\ Truthy(community_areas) =>
                         \E n \in SuppliedNames(community_areas) :
                             r.community = Upper(n) }

(* C3: with the data file in place, a call whose output_type is none of     *)
(* 'geopandas', 'pandas', 'polars' fails with the invalid-output-selector   *)
(* error whatever the other arguments are.                                  *)
C3_InvalidOutputAlways ==
    pc = "done" /\ fileExists /\ output_type \notin {"geopandas", "pandas", "polars"}
        => Raised("InvalidOutputType")

(* C4: with the file in place and the other arguments valid, a year_range   *)
(* list of one or two elements is accepted, and a list of any other length  *)
(* (zero, three or more) fails with the invalid-year-range error.           *)
C4_YearRangeShape ==
    ( /\ pc = "done"
      /\ fileExists
      /\ community_areas = Absent
      /\ output_type \in {"geopandas", "pandas", "polars"}
      /\ year_range.kind = "list" )
    => IF Len(year_range.val) \in {1, 2}
       THEN Returned
       ELSE Raised("InvalidYearRange")

\* vocabulary of C5: the selection holds an invalid name; the names in the
\* order supplied; the invalid ones among them, uppercased; the checks that
\* __validate_args makes before the community check let the call through
C5_SomeInvalid ==
    /\ Truthy(community_areas)
    /\ \E n \in SuppliedNames(community_areas) :
           Upper(n) \notin { r.community : r \in Dataset }

C5_NamesSupplied ==
    IF community_areas.kind = "str" THEN <<community_areas.val>> ELSE community_areas.val

C5_Expected ==
    LET Bad(n) == n \notin { r.community : r \in Dataset }
    IN  SelectSeq([i \in DOMAIN C5_NamesSupplied |-> Upper(C5_NamesSupplied[i])], Bad)

C5_EarlierChecksPass ==
    /\ output_type \in {"geopandas", "pandas", "polars"}
    /\ \/ ~Truthy(year_range)
       \/ year_range.kind = "num"
       \/ year_range.kind = "list" /\ Len(year_range.val) \in {1, 2}
       \/ year_range.kind = "tuple" /\ Len(year_range.val) = 2

(* C5 as amended: with the file in place, when year_range and output_type   *)
(* pass their checks (which come first) and some supplied name, uppercased, *)
(* is not a community of the file, the call fails with the                  *)
(* invalid-community-area error, whose message names every invalid name     *)
(* supplied, in the order supplied.                                         *)
C5_InvalidAreasAmended ==
    pc = "done" /\ fileExists /\ C5_SomeInvalid /\ C5_EarlierChecksPass
        => Raised("InvalidCommunityArea") /\ outcome.msg = C5_Expected

\* C5 as stated: no condition on the other arguments
C5_InvalidAreasOriginal ==
    pc = "done" /\ fileExists /\ C5_SomeInvalid
        => Raised("InvalidCommunityArea") /\ outcome.msg = C5_Expected

\* two different invalid names in one selection: both are named
C5_Witness ==
    /\ Raised("InvalidCommunityArea")
    /\ community_areas = List(<< <<"o","z">>, <<"E","d","e","n">> >>)
    /\ outcome.msg = << <<"O","Z">>, <<"E","D","E","N">> >>

\* vocabulary of C6: the five core columns
C6_Core == {"pin", "addr", "build_year", "community", "house_point"}

(* C6 as amended: with full_data false the result has exactly the five core *)
(* columns for 'pandas' and 'polars', and those five plus the 'geometry'    *)
(* column for 'geopandas'; with full_data true its columns include the five *)
(* core columns and the characteristic columns.                             *)
C6_ColumnsAmended ==
    Returned =>
        /\ ~full_data =>
             outcome.cols =
               C6_Core \cup (IF output_type = "geopandas" THEN {"geometry"} ELSE {})
        /\ full_data =>
             /\ C6_Core \subseteq outcome.cols
             /\ {"char_bldg_sf", "char_rooms"} \subseteq outcome.cols

\* C6 as stated: exactly the five core columns for every output type
C6_ColumnsOriginal ==
    Returned =>
        /\ ~full_data => outcome.cols = C6_Core
        /\ full_data =>
             /\ C6_Core \subseteq outcome.cols
             /\ {"char_bldg_sf", "char_rooms"} \subseteq outcome.cols

\* a minimal-mode geospatial result
C6_Witness ==
    Returned /\ ~full_data /\ output_type = "geopandas" /\ outcome.rows # {}

(* C7: when the data file cannot be found, the call fails with the          *)
(* data-unavailable error and returns no result; stated here for calls      *)
(* whose arguments are all valid, where no other error can be due.          *)
C7_MissingFile ==
    ( /\ pc = "done"
      /\ ~fileExists
      /\ community_areas = Absent
      /\ year_range = Absent
      /\ output_type \in {"geopandas", "pandas", "polars"} )
    => Raised("DataUnavailable")

(* C8: during a call the objects the caller passed as community_areas and   *)
(* year_range keep their contents.                                          *)
C8_ArgumentsUntouched ==
    [][InCall => community_areas' = community_areas /\ year_range' = year_range]_vars

(* C9: before the filtered plan is built and returned, the data is          *)
(* materialised only by the distinct-community scan, at most once and only  *)
(* for a supplied selection; a 'polars' result's plan was never             *)
(* materialised, so a 'polars' call without community areas materialises    *)
(* nothing.                                                                 *)
C9_Materialisation ==
    /\ areaScans <= 1
    /\ areaScans = 1 => Truthy(community_areas)
    /\ InCall => planCollects = 0
    /\ Returned /\ output_type = "polars" => planCollects = 0
    /\ Returned /\ output_type = "polars" /\ ~Truthy(community_areas)
         => areaScans + planCollects = 0

\* a 'polars' call with a selection: one validation scan, the plan untouched
C9_Witness ==
    /\ Returned
    /\ output_type = "polars"
    /\ Truthy(community_areas)
    /\ areaScans = 1
    /\ planCollects = 0

(* C10: a finished call has raised an error or returned a result of the     *)
(* representation output_type names; it never falls off the end of the      *)
(* function body.                                                           *)
C10_NoImplicitNone ==
    pc = "done" =>
        \/ outcome.kind = "raise"
        \/ /\ outcome.kind = "return"
           /\ outcome.rep = output_type
           /\ output_type \in {"geopandas", "pandas", "polars"}

\* each representation is returned by some call
C10_Witness ==
    Returned /\ outcome.rep = "polars" /\ year_range = Num(1900)

====
